---- MODULE Spec2Model ----
(***************************************************************************)
(* A model of the enumset crate: EnumSet<T>, a bit set over the variants   *)
(* of an enumeration T, its iterators and its numeric conversions.         *)
(*                                                                         *)
(* The repository holds two generations of the crate:                      *)
(*   src/enumset/src/lib.rs  the derive-based crate  (T.crate = "derive")  *)
(*   src/src/lib.rs          the macro-based crate   (T.crate = "macro")   *)
(* Definitions of the macro-based crate carry the suffix _macro.           *)
(*                                                                         *)
(* A value of an unsigned integer type of width w is modelled by the set   *)
(* of the positions of its one bits, a subset of 0..w-1 (bit 0 is the      *)
(* least significant).                                                     *)
(* An enum value is modelled by its bit index.                             *)
(***************************************************************************)
EXTENDS Integers, Naturals, Sequences, FiniteSets, TLC

VARIABLES
    arg,        \* the arguments of the conversions: [n, bits], a u{n}
    T,          \* the enumeration: [crate, WIDTH, ALL_BITS, VARIANT_COUNT]
    overflow_checks, \* whether the build traps on arithmetic overflow
    set,        \* an EnumSet<T>: its backing value (__priv_repr / .0)
    other,      \* a second EnumSet<T>
    ret,        \* the last call and what it returned
    iter,       \* the EnumSetIter<T>, or NoIter
    fwd,        \* the bit indices next() has yielded, in order
    bwd,        \* the bit indices next_back() has yielded, in order
    sub,        \* the EnumSetSubsetIter<T>, or NoIter
    sub_out     \* the sets the subset iterator has yielded, in order

vars == <<arg, T, overflow_checks, set, other, ret, iter, fwd, bwd, sub, sub_out>>

----------------------------------------------------------------------------
(* Unsigned integers as bit vectors *)

Bits(w) == 0 .. (w - 1)

Max(S) == CHOOSE x \in S : \A y \in S : y <= x
Min(S) == CHOOSE x \in S : \A y \in S : x <= y

RECURSIVE Pow2(_)
Pow2(n) == IF n = 0 THEN 1 ELSE 2 * Pow2(n - 1)


\* a < b as unsigned numbers: the highest bit in which they differ is b's
Less(a, b) == a # b /\ Max((a \ b) \cup (b \ a)) \in b

\* the primitive operators |, &, ^, ! of an unsigned type of width T.WIDTH
BitOr(a, b)  == a \cup b
BitAnd(a, b) == a \cap b
BitXor(a, b) == (a \ b) \cup (b \ a)
BitNot(a)    == Bits(T.WIDTH) \ a

\* u{w}::saturating_sub: a - b, or 0 when b is greater than a
saturating_sub(a, b) ==
    IF Less(a, b) THEN {}
    ELSE {i \in Bits(T.WIDTH) :
             ((i \in a) # (i \in b)) # Less(a \cap Bits(i), b \cap Bits(i))}

\* u{w}::wrapping_sub: a - b modulo 2^w.  Bit i of the difference is
\* a_i xor b_i xor borrow_i, and there is a borrow into bit i exactly when
\* the low i bits of a are less than the low i bits of b.
wrapping_sub(a, b) ==
    {i \in Bits(T.WIDTH) :
        ((i \in a) # (i \in b)) # Less(a \cap Bits(i), b \cap Bits(i))}

----------------------------------------------------------------------------
(* Option<_> and the outcome of a call that may panic *)

Some(x) == <<x>>
None    == <<>>
IsSome(o) == Len(o) = 1
Unwrap(o) == o[1]

Panic     == [panicked |-> TRUE, val |-> {}]
Return(x) == [panicked |-> FALSE, val |-> x]

\* Option::expect
expect(o) == IF IsSome(o) THEN Return(Unwrap(o)) ELSE Panic

----------------------------------------------------------------------------
(* EnumSetTypeRepr (mod repr): the capabilities of a backing integer *)

empty == {}
is_empty(r) == r = {}
has_bit(r, bit) == bit \in r
add_bit(r, bit) == r \cup {bit}
remove_bit(r, bit) == r \ {bit}
and_not(r, o) == r \ o
count_ones(r) == Cardinality(r)
leading_zeros(r) == IF r = {} THEN T.WIDTH ELSE T.WIDTH - 1 - Max(r)
trailing_zeros(r) == IF r = {} THEN T.WIDTH ELSE Min(r)

\* from_u8 .. from_u128 (an `as` cast of a u{n} into the backing type)
\* to_u8 .. to_u128     (an `as` cast of the backing type into u{n})
repr_from_uN(v) == v \cap Bits(T.WIDTH)
repr_to_uN(r, n) == r \cap Bits(n)
\* from_u8_opt .. / to_u8_opt ..: None when the value does not fit
repr_from_uN_opt(v) == IF v \subseteq Bits(T.WIDTH) THEN Some(v) ELSE None
repr_to_uN_opt(r, n) == IF r \subseteq Bits(n) THEN Some(r) ELSE None

----------------------------------------------------------------------------
(* EnumSetTypePrivate: what the derive supplies for an enumeration *)

enum_into_u32(v) == v
\* unsafe: undefined unless val is the index of a variant
enum_from_u32(val) == IF val \in T.ALL_BITS THEN val ELSE "undefined"

\* the values of the enumeration
Variants == T.ALL_BITS

----------------------------------------------------------------------------
(* impl EnumSet<T>, derive-based crate *)

all_bits == T.ALL_BITS
new == empty
all == all_bits
\* bit_width that reports the width of the backing integer
bit_width_rounded == T.WIDTH
bit_width == T.WIDTH - leading_zeros(T.ALL_BITS)
variant_count == count_ones(T.ALL_BITS)
len(self) == count_ones(self)

is_disjoint(self, o) == is_empty(BitAnd(self, o))
is_superset(self, o) == BitAnd(self, o) = o
\* is_subset that forgets to swap the operands
is_subset_unswapped(self, o) == is_superset(self, o)
is_subset(self, o) == is_superset(o, self)

union(self, o) == BitOr(self, o)
\* intersection that ors
intersection_as_union(self, o) == BitOr(self, o)
intersection(self, o) == BitAnd(self, o)
\* difference with the operands swapped
difference_swapped(self, o) == and_not(o, self)
difference(self, o) == and_not(self, o)
\* symmetrical_difference that ors
symmetrical_difference_as_union(self, o) == BitOr(self, o)
symmetrical_difference(self, o) == BitXor(self, o)
\* complement without the mask
complement_unmasked(self) == BitNot(self)
complement(self) == BitAnd(BitNot(self), all_bits)

contains(self, value) == has_bit(self, enum_into_u32(value))

\* the set after the call, and the value returned
insert(self, value) ==
    LET contains_ == ~contains(self, value)
    IN  [self |-> add_bit(self, enum_into_u32(value)), ret |-> contains_]

\* remove that reports the opposite
remove_negated(self, value) ==
    LET contains_ == ~contains(self, value)
    IN  [self |-> remove_bit(self, enum_into_u32(value)), ret |-> contains_]

remove(self, value) ==
    LET contains_ == contains(self, value)
    IN  [self |-> remove_bit(self, enum_into_u32(value)), ret |-> contains_]

insert_all(self, o) == BitOr(self, o)
\* remove_all that keeps the values of the other set instead
remove_all_as_and(self, o) == BitAnd(self, o)
remove_all(self, o) == and_not(self, o)

\* only that never inserts
only_forgot_insert(t) == new
only(t) == insert(new, t).self

----------------------------------------------------------------------------
(* The enumerations *)

MkEnum(crate, width, bits) ==
    [crate |-> crate, WIDTH |-> width, ALL_BITS |-> bits,
     VARIANT_COUNT |-> Cardinality(bits)]

\* derive-based crate
\* enum Enum { A, B, C, D, E, F, G }, stored in a u8
Enum == MkEnum("derive", 8, 0 .. 6)
\* #[enumset(repr = "u32")] enum MyEnum { A, B, C }
MyEnum == MkEnum("derive", 32, 0 .. 2)
\* enum SparseEnum { A = 10, B = 20, C = 30, D = 127 }, stored in a u128
SparseEnum == MkEnum("derive", 128, {10, 20, 30, 127})
\* an enum whose eight variants fill its u8
ByteEnum == MkEnum("derive", 8, 0 .. 7)

\* enum Enum { A, B, C }, stored in a u8
Enum3 == MkEnum("derive", 8, 0 .. 2)

\* macro-based crate: variant i has discriminant i
\* enum_set_type! { enum Enum { A, B, C } }
Enum_macro == MkEnum("macro", 8, 0 .. 2)
\* enum_set_type! { enum Enum { A, B, C, D, E, F, G } }
Enum7_macro == MkEnum("macro", 8, 0 .. 6)
\* enum_set_type! { pub enum Enum { A, B, C, D, E, F, G, __NonExhaustive } }
Enum8_macro == MkEnum("macro", 8, 0 .. 7)

----------------------------------------------------------------------------
(* impl EnumSet<T>, macro-based crate *)

ZERO == {}
ONE  == {0}

\* what an overflowing << or - evaluates to when the build traps on overflow
Overflow == {-1}

\* Repr << u8: a shift by the width or more overflows; without overflow
\* checks the shift amount is taken modulo the width
Shl(a, n) ==
    LET k == n % T.WIDTH
        shifted == {i + k : i \in a} \cap Bits(T.WIDTH)
    IN  IF n >= T.WIDTH /\ overflow_checks THEN Overflow ELSE shifted

\* Repr - Repr
Sub(a, b) ==
    IF Less(a, b) /\ overflow_checks THEN Overflow ELSE wrapping_sub(a, b)

count_ones_macro(val) == Cardinality(val)
into_u8(v) == v
\* transmute: undefined unless val is the discriminant of a variant
from_u8(val) == IF val < T.VARIANT_COUNT THEN val ELSE "undefined"

mask_macro(bit) == Shl(ONE, bit)
has_bit_macro(self, bit) ==
    LET mask == mask_macro(bit) IN BitAnd(self, mask) = mask

new_macro == ZERO
len_macro(self) == count_ones_macro(self)
is_empty_macro(self) == self = ZERO

is_disjoint_macro(self, o) == BitAnd(self, o) = ZERO
is_superset_macro(self, o) == BitAnd(o, self) = o
is_subset_macro(self, o) == is_superset_macro(o, self)

union_macro(self, o) == BitOr(self, o)
intersection_macro(self, o) == BitAnd(self, o)
difference_macro(self, o) == BitAnd(self, BitNot(o))
symmetrical_difference_macro(self, o) == BitXor(self, o)

contains_macro(self, value) == has_bit_macro(self, into_u8(value))

insert_macro(self, value) ==
    LET contains_ == contains_macro(self, value)
    IN  [self |-> BitOr(self, mask_macro(into_u8(value))), ret |-> contains_]

remove_macro(self, value) ==
    LET contains_ == contains_macro(self, value)
    IN  [self |-> BitAnd(self, BitNot(mask_macro(into_u8(value)))),
         ret |-> contains_]

insert_all_macro(self, o) == BitOr(self, o)
remove_all_macro(self, o) == BitAnd(self, BitNot(o))

\* impl BitOr<T> for EnumSet<T>
bitor_value_macro(self, o) == BitOr(self, mask_macro(into_u8(o)))

----------------------------------------------------------------------------
(* Operator impls of the derive-based crate.  The right operand is any      *)
(* O: Into<EnumSet<T>>, a set or a bare enum value.                          *)

from(t) == only(t)
sub_(self, o) == difference(self, o)
\* & that subtracts
bitand_as_sub(self, o) == difference(self, o)
bitand(self, o) == intersection(self, o)
bitor(self, o) == union(self, o)
bitxor(self, o) == symmetrical_difference(self, o)
\* ! that ors the mask in
not_or_mask(self) == BitOr(BitNot(self), all_bits)
not(self) == complement(self)
sub_assign(self, rhs) == sub_(self, rhs)
bitand_assign(self, rhs) == bitand(self, rhs)
bitor_assign(self, rhs) == bitor(self, rhs)
bitxor_assign(self, rhs) == bitxor(self, rhs)

\* impl PartialEq for EnumSet<T> (derived)
eq(self, o) == self = o
\* comparison with a bare value that only tests membership
eq_value_contains(self, o) == contains(self, o)
\* impl PartialEq<T> for EnumSet<T>
eq_value(self, o) == self = only(o)

\* impl Sub / BitAnd / BitOr / BitXor <EnumSet<T>> for EnumSet<T>, macro crate
sub_macro(self, o) == difference_macro(self, o)
bitand_macro(self, o) == intersection_macro(self, o)
bitor_macro(self, o) == union_macro(self, o)
bitxor_macro(self, o) == symmetrical_difference_macro(self, o)

----------------------------------------------------------------------------
(* The set operations as steps of a program holding two sets *)

NoCall == [op |-> "none"]
NoArg == [n |-> 0, bits |-> {}]
NoIter == [live |-> FALSE]

Derive == T.crate = "derive"
Macro  == T.crate = "macro"

\* the variables the set operations leave alone
IterUnchanged == UNCHANGED <<iter, fwd, bwd, sub, sub_out>>
Fixed == UNCHANGED <<arg, T, overflow_checks>>

Insert(value) ==
    /\ Derive
    /\ LET r == insert(set, value)
       IN  /\ set' = r.self
           /\ ret' = [op |-> "insert", value |-> value, result |-> r.ret]
    /\ UNCHANGED other /\ IterUnchanged /\ Fixed

Remove(value) ==
    /\ Derive
    /\ LET r == remove(set, value)
       IN  /\ set' = r.self
           /\ ret' = [op |-> "remove", value |-> value, result |-> r.ret]
    /\ UNCHANGED other /\ IterUnchanged /\ Fixed

InsertAll ==
    /\ Derive
    /\ set' = insert_all(set, other)
    /\ UNCHANGED <<other, ret>> /\ IterUnchanged /\ Fixed

RemoveAll ==
    /\ Derive
    /\ set' = remove_all(set, other)
    /\ UNCHANGED <<other, ret>> /\ IterUnchanged /\ Fixed

Clear ==
    /\ Derive
    /\ set' = empty
    /\ UNCHANGED <<other, ret>> /\ IterUnchanged /\ Fixed

\* let other = set.union(other), set - other, ..., !set, T::into()
Pure ==
    /\ Derive
    /\ \/ other' = union(set, other)
       \/ other' = intersection(set, other)
       \/ other' = difference(set, other)
       \/ other' = symmetrical_difference(set, other)
       \/ other' = complement(set)
       \/ other' = bitor(set, other)
       \/ other' = bitand(set, other)
       \/ other' = sub_(set, other)
       \/ other' = bitxor(set, other)
       \/ other' = not(set)
       \/ \E t \in Variants : other' = from(t)
       \/ \E t \in Variants : other' = bitor(set, from(t))
    /\ UNCHANGED <<set, ret>> /\ IterUnchanged /\ Fixed

\* set |= other, set &= other, set -= other, set ^= other, set = !set
Assign ==
    /\ Derive
    /\ \/ set' = bitor_assign(set, other)
       \/ set' = bitand_assign(set, other)
       \/ set' = sub_assign(set, other)
       \/ set' = bitxor_assign(set, other)
       \/ set' = not(set)
       \/ \E t \in Variants : set' = sub_assign(set, from(t))
    /\ UNCHANGED <<other, ret>> /\ IterUnchanged /\ Fixed

\* set.len(), set.is_disjoint(other), ..., set == other, set == t
Query ==
    /\ Derive
    /\ \/ ret' = [op |-> "len", result |-> len(set)]
       \/ ret' = [op |-> "is_empty", result |-> is_empty(set)]
       \/ ret' = [op |-> "is_disjoint", result |-> is_disjoint(set, other)]
       \/ ret' = [op |-> "is_superset", result |-> is_superset(set, other)]
       \/ ret' = [op |-> "is_subset", result |-> is_subset(set, other)]
       \/ ret' = [op |-> "eq", result |-> eq(set, other)]
       \/ \E t \in Variants :
              ret' = [op |-> "contains", value |-> t,
                      result |-> contains(set, t)]
       \/ \E t \in Variants :
              ret' = [op |-> "eq_value", value |-> t,
                      result |-> eq_value(set, t)]
    /\ UNCHANGED <<set, other>> /\ IterUnchanged /\ Fixed

Insert_macro(value) ==
    /\ Macro
    /\ LET r == insert_macro(set, value)
       IN  /\ set' = r.self
           /\ ret' = [op |-> "insert", value |-> value, result |-> r.ret]
    /\ UNCHANGED other /\ IterUnchanged /\ Fixed

Remove_macro(value) ==
    /\ Macro
    /\ LET r == remove_macro(set, value)
       IN  /\ set' = r.self
           /\ ret' = [op |-> "remove", value |-> value, result |-> r.ret]
    /\ UNCHANGED other /\ IterUnchanged /\ Fixed

InsertAll_macro ==
    /\ Macro
    /\ set' = insert_all_macro(set, other)
    /\ UNCHANGED <<other, ret>> /\ IterUnchanged /\ Fixed

RemoveAll_macro ==
    /\ Macro
    /\ set' = remove_all_macro(set, other)
    /\ UNCHANGED <<other, ret>> /\ IterUnchanged /\ Fixed

Clear_macro ==
    /\ Macro
    /\ set' = ZERO
    /\ UNCHANGED <<other, ret>> /\ IterUnchanged /\ Fixed

Pure_macro ==
    /\ Macro
    /\ \/ other' = bitor_macro(set, other)
       \/ other' = bitand_macro(set, other)
       \/ other' = sub_macro(set, other)
       \/ other' = bitxor_macro(set, other)
       \/ \E t \in Variants : other' = bitor_value_macro(set, t)
       \/ \E t \in Variants : other' = bitor_value_macro(new_macro, t)
    /\ UNCHANGED <<set, ret>> /\ IterUnchanged /\ Fixed

Query_macro ==
    /\ Macro
    /\ \/ ret' = [op |-> "len", result |-> len_macro(set)]
       \/ ret' = [op |-> "is_empty", result |-> is_empty_macro(set)]
       \/ ret' = [op |-> "is_disjoint",
                  result |-> is_disjoint_macro(set, other)]
       \/ ret' = [op |-> "is_superset",
                  result |-> is_superset_macro(set, other)]
       \/ ret' = [op |-> "is_subset", result |-> is_subset_macro(set, other)]
       \/ \E t \in Variants :
              ret' = [op |-> "contains", value |-> t,
                      result |-> contains_macro(set, t)]
    /\ UNCHANGED <<set, other>> /\ IterUnchanged /\ Fixed

\* the enumerations whose sets the set operations are run on
OpsEnums == {MyEnum, SparseEnum, Enum_macro}

Init ==
    /\ T \in OpsEnums
    /\ overflow_checks \in BOOLEAN
    /\ set = (IF Derive THEN new ELSE new_macro)
    /\ other = (IF Derive THEN new ELSE new_macro)
    /\ ret = NoCall
    /\ arg = NoArg
    /\ iter = NoIter /\ fwd = <<>> /\ bwd = <<>>
    /\ sub = NoIter /\ sub_out = <<>>

Next ==
    \/ \E value \in Variants : Insert(value)
    \/ \E value \in Variants : Remove(value)
    \/ InsertAll
    \/ RemoveAll
    \/ Clear
    \/ Pure
    \/ Assign
    \/ Query
    \/ \E value \in Variants : Insert_macro(value)
    \/ \E value \in Variants : Remove_macro(value)
    \/ InsertAll_macro
    \/ RemoveAll_macro
    \/ Clear_macro
    \/ Pure_macro
    \/ Query_macro

Spec == Init /\ [][Next]_vars

----------------------------------------------------------------------------
(* Properties of the set operations *)

\* the backing value has no bit outside the Valid-Bits Mask
Valid(s) == and_not(s, T.ALL_BITS) = {}

\* C1: whatever sequence of public safe operations has run, neither set has
\* a bit outside ALL_BITS.
C1_ValidBits == Derive => Valid(set) /\ Valid(other)

\* a set left by the masked complement of a set with fewer than all variants
C1_Witness ==
    /\ Derive /\ Valid(set) /\ set # {}
    /\ other = complement(set) /\ other # {}
    /\ BitNot(set) # other

\* membership as the crate at hand tests it
Contains(s, v) == IF Derive THEN contains(s, v) ELSE contains_macro(s, v)

\* a call changed nothing but (possibly) the membership of v
OnlyChanged(v) ==
    \A u \in Variants \ {v} : Contains(set', u) = Contains(set, u)

\* C5: insert(value) returns true exactly when value was not in the set
\* before the call; afterwards the set contains value and the membership of
\* every other value is unchanged.  (Stated for both crates.)
C5_InsertReturnsNewlyAdded ==
    [][\A v \in Variants :
          (Insert(v) \/ Insert_macro(v)) =>
              /\ ret'.result = ~Contains(set, v)
              /\ Contains(set', v)
              /\ OnlyChanged(v)]_vars

\* C6: remove(value) returns true exactly when value was in the set before
\* the call; afterwards the set does not contain value and the membership of
\* every other value is unchanged.  (Stated for both crates.)
C6_RemoveReturnsWasPresent ==
    [][\A v \in Variants :
          (Remove(v) \/ Remove_macro(v)) =>
              /\ ret'.result = Contains(set, v)
              /\ ~Contains(set', v)
              /\ OnlyChanged(v)]_vars

\* a remove that found its value, on a set that keeps other values
C6_Witness ==
    /\ ret.op = "remove" /\ ret.result
    /\ ~Contains(set, ret.value) /\ set # {}

----------------------------------------------------------------------------
(* EnumSetIter *)

\* EnumSetIter::new, derive-based crate: the iterator owns a copy of the set
EnumSetIter_new(s) == [live |-> TRUE, set |-> s]

\* next that takes the lowest bit but clears the highest
EnumSetIter_next_clears_high(self) ==
    IF is_empty(self.set) THEN [self |-> self, ret |-> None]
    ELSE LET bit == trailing_zeros(self.set)
         IN  [self |-> [self EXCEPT !.set = remove_bit(self.set, Max(self.set))],
              ret |-> Some(enum_from_u32(bit))]

\* impl Iterator for EnumSetIter: the iterator after the call, and the result
EnumSetIter_next(self) ==
    IF is_empty(self.set) THEN [self |-> self, ret |-> None]
    ELSE LET bit == trailing_zeros(self.set)
         IN  [self |-> [self EXCEPT !.set = remove_bit(self.set, bit)],
              ret |-> Some(enum_from_u32(bit))]

EnumSetIter_size_hint(self) ==
    LET left == len(self.set) IN Return(<<left, Some(left)>>)

\* next_back with the bit index off by one (WIDTH - leading_zeros)
EnumSetIter_next_back_off_by_one(self) ==
    IF is_empty(self.set) THEN [self |-> self, ret |-> None]
    ELSE LET bit == T.WIDTH - leading_zeros(self.set)
         IN  [self |-> [self EXCEPT !.set = remove_bit(self.set, bit)],
              ret |-> Some(bit)]

\* impl DoubleEndedIterator for EnumSetIter
EnumSetIter_next_back(self) ==
    IF is_empty(self.set) THEN [self |-> self, ret |-> None]
    ELSE LET bit == T.WIDTH - 1 - leading_zeros(self.set)
         IN  [self |-> [self EXCEPT !.set = remove_bit(self.set, bit)],
              ret |-> Some(enum_from_u32(bit))]

\* EnumSet::iter, macro-based crate: EnumSetIter(*self, 0)
iter_macro(s) == [live |-> TRUE, set |-> s, idx |-> 0]

\* the while loop of EnumSetIter::next, macro-based crate
RECURSIVE EnumSetIter_next_macro(_)
EnumSetIter_next_macro(self) ==
    IF self.idx < T.VARIANT_COUNT
    THEN LET bit == self.idx
             stepped == [self EXCEPT !.idx = self.idx + 1]
         IN  IF has_bit_macro(stepped.set, bit)
             THEN [self |-> stepped, ret |-> Some(from_u8(bit))]
             ELSE EnumSetIter_next_macro(stepped)
    ELSE [self |-> self, ret |-> None]

\* count_ones(set & !((ONE << idx) - ONE))
EnumSetIter_size_hint_macro(self) ==
    LET shifted == Shl(ONE, self.idx)
        low == IF shifted = Overflow THEN Overflow ELSE Sub(shifted, ONE)
        left == count_ones_macro(BitAnd(self.set, BitNot(low)))
    IN  IF low = Overflow THEN Panic ELSE Return(<<left, Some(left)>>)

\* what a Formatter receives: f.write_str(s) and v.fmt(f), which writes the
\* name of the variant v
write_str(s) == [write_str |-> s]
fmt_value(v) == [variant |-> v]

\* the for loop of Debug::fmt: f is what has been written so far
RECURSIVE fmt_loop(_, _, _)
fmt_loop(it, is_first, f) ==
    LET r == EnumSetIter_next(it)
    IN  IF ~IsSome(r.ret) THEN f
        ELSE LET v == Unwrap(r.ret)
                 sep == IF ~is_first THEN Append(f, write_str(" | ")) ELSE f
             IN  fmt_loop(r.self, FALSE, Append(sep, fmt_value(v)))

\* Debug::fmt whose is_first starts out false
fmt_leading_separator(self) ==
    LET is_first == FALSE
        opened == <<write_str("EnumSet(")>>
        listed == fmt_loop(EnumSetIter_new(self), is_first, opened)
    IN  Append(listed, write_str(")"))

\* impl Debug for EnumSet<T>
fmt(self) ==
    LET is_first == TRUE
        opened == <<write_str("EnumSet(")>>
        listed == fmt_loop(EnumSetIter_new(self), is_first, opened)
    IN  Append(listed, write_str(")"))

RECURSIVE fmt_loop_macro(_, _, _)
fmt_loop_macro(it, is_first, f) ==
    LET r == EnumSetIter_next_macro(it)
    IN  IF ~IsSome(r.ret) THEN f
        ELSE LET v == Unwrap(r.ret)
                 sep == IF ~is_first THEN Append(f, write_str(" | ")) ELSE f
             IN  fmt_loop_macro(r.self, FALSE, Append(sep, fmt_value(v)))

\* impl Debug for EnumSet<T>, macro-based crate
fmt_macro(self) ==
    LET is_first == TRUE
        opened == <<write_str("EnumSet(")>>
        listed == fmt_loop_macro(iter_macro(self), is_first, opened)
    IN  Append(listed, write_str(")"))

\* format!("{:?}", set)
Fmt ==
    /\ Derive
    /\ ret' = [op |-> "fmt", result |-> fmt(set)]
    /\ UNCHANGED <<set, other, iter, fwd, bwd, sub, sub_out>> /\ Fixed

Fmt_macro ==
    /\ Macro
    /\ ret' = [op |-> "fmt", result |-> fmt_macro(set)]
    /\ UNCHANGED <<set, other, iter, fwd, bwd, sub, sub_out>> /\ Fixed

\* an iter() that drains the set it is called on
Iter_drain ==
    /\ Derive
    /\ iter' = EnumSetIter_new(set)
    /\ set' = empty
    /\ fwd' = <<>> /\ bwd' = <<>>
    /\ ret' = [op |-> "iter"]
    /\ UNCHANGED <<other, sub, sub_out>> /\ Fixed

\* set.iter() / set.into_iter()
Iter ==
    /\ Derive
    /\ iter' = EnumSetIter_new(set)
    /\ fwd' = <<>> /\ bwd' = <<>>
    /\ ret' = [op |-> "iter"]
    /\ UNCHANGED <<set, other, sub, sub_out>> /\ Fixed

IterNext ==
    /\ Derive /\ iter.live
    /\ LET r == EnumSetIter_next(iter)
       IN  /\ iter' = r.self
           /\ ret' = [op |-> "next", result |-> r.ret]
           /\ fwd' = IF IsSome(r.ret) THEN Append(fwd, Unwrap(r.ret)) ELSE fwd
    /\ UNCHANGED <<set, other, bwd, sub, sub_out>> /\ Fixed

IterNextBack ==
    /\ Derive /\ iter.live
    /\ LET r == EnumSetIter_next_back(iter)
       IN  /\ iter' = r.self
           /\ ret' = [op |-> "next_back", result |-> r.ret]
           /\ bwd' = IF IsSome(r.ret) THEN Append(bwd, Unwrap(r.ret)) ELSE bwd
    /\ UNCHANGED <<set, other, fwd, sub, sub_out>> /\ Fixed

IterSizeHint ==
    /\ Derive /\ iter.live
    /\ ret' = [op |-> "size_hint", result |-> EnumSetIter_size_hint(iter)]
    /\ UNCHANGED <<set, other, iter, fwd, bwd, sub, sub_out>> /\ Fixed

Iter_macro ==
    /\ Macro
    /\ iter' = iter_macro(set)
    /\ fwd' = <<>> /\ bwd' = <<>>
    /\ ret' = [op |-> "iter"]
    /\ UNCHANGED <<set, other, sub, sub_out>> /\ Fixed

IterNext_macro ==
    /\ Macro /\ iter.live
    /\ LET r == EnumSetIter_next_macro(iter)
       IN  /\ iter' = r.self
           /\ ret' = [op |-> "next", result |-> r.ret]
           /\ fwd' = IF IsSome(r.ret) THEN Append(fwd, Unwrap(r.ret)) ELSE fwd
    /\ UNCHANGED <<set, other, bwd, sub, sub_out>> /\ Fixed

IterSizeHint_macro ==
    /\ Macro /\ iter.live
    /\ ret' = [op |-> "size_hint",
               result |-> EnumSetIter_size_hint_macro(iter)]
    /\ UNCHANGED <<set, other, iter, fwd, bwd, sub, sub_out>> /\ Fixed

\* the enumerations whose sets are iterated
IterEnums == {Enum, ByteEnum, SparseEnum, Enum_macro, Enum8_macro}

\* the sets the safe operations can build: new() and any inserts
ReachableSets == SUBSET T.ALL_BITS

InitIter ==
    /\ T \in IterEnums
    /\ overflow_checks \in BOOLEAN
    /\ set \in ReachableSets
    /\ other = (IF Derive THEN new ELSE new_macro)
    /\ ret = NoCall
    /\ arg = NoArg
    /\ iter = NoIter /\ fwd = <<>> /\ bwd = <<>>
    /\ sub = NoIter /\ sub_out = <<>>

NextIter ==
    \/ Iter
    \/ IterNext
    \/ IterNextBack
    \/ IterSizeHint
    \/ Iter_macro
    \/ IterNext_macro
    \/ IterSizeHint_macro
    \/ Fmt
    \/ Fmt_macro

SpecIter == InitIter /\ [][NextIter]_vars

----------------------------------------------------------------------------
(* Properties of EnumSetIter *)

Range(seq) == {seq[i] : i \in DOMAIN seq}
Ascending(seq) == \A i \in 1 .. (Len(seq) - 1) : seq[i] < seq[i + 1]
Descending(seq) == \A i \in 1 .. (Len(seq) - 1) : seq[i] > seq[i + 1]
Reverse(seq) == [i \in 1 .. Len(seq) |-> seq[Len(seq) + 1 - i]]

\* the values v with s.contains(v)
Members(s) == {v \in Variants : Contains(s, v)}

\* an empty set with every value of seq inserted
RECURSIVE Reinserted(_, _)
Reinserted(seq, acc) ==
    IF seq = <<>> THEN acc
    ELSE Reinserted(Tail(seq),
                    IF Derive THEN insert(acc, Head(seq)).self
                    ELSE insert_macro(acc, Head(seq)).self)

\* what next() yields when it is called until it returns None
RECURSIVE Collect(_)
Collect(it) ==
    LET r == EnumSetIter_next(it)
    IN  IF IsSome(r.ret) THEN <<Unwrap(r.ret)>> \o Collect(r.self) ELSE <<>>

Exhausted(op) == ret.op = op /\ ret.result = None

\* C2: calling only next() on s.iter() yields members of s in strictly
\* ascending bit-index order, never skipping a member below the last one
\* yielded; when next() returns None every member has been yielded, and
\* re-inserting the yielded values into an empty set reproduces s.
C2_ForwardIteration ==
    (iter.live /\ bwd = <<>>) =>
        /\ Ascending(fwd)
        /\ Range(fwd) \subseteq Members(set)
        /\ \A v \in Members(set) :
               (fwd # <<>> /\ v <= fwd[Len(fwd)]) => v \in Range(fwd)
        /\ Exhausted("next") =>
               /\ Range(fwd) = Members(set)
               /\ Len(fwd) = Cardinality(Members(set))
               /\ Reinserted(fwd, IF Derive THEN new ELSE new_macro) = set

\* next() has returned None after yielding three or more values
C2_Witness ==
    /\ iter.live /\ bwd = <<>> /\ Exhausted("next")
    /\ Len(fwd) >= 3 /\ Range(fwd) = set

\* C3: calling only next_back() on s.iter() yields members of s in strictly
\* descending bit-index order; when next_back() returns None the values
\* yielded are those of forward iteration, in exactly the reversed order.
C3_ReverseIteration ==
    (Derive /\ iter.live /\ fwd = <<>>) =>
        /\ Descending(bwd)
        /\ Range(bwd) \subseteq Members(set)
        /\ Exhausted("next_back") =>
               bwd = Reverse(Collect(EnumSetIter_new(set)))

\* next_back() has returned None after yielding three or more values
C3_Witness ==
    /\ Derive /\ iter.live /\ fwd = <<>> /\ Exhausted("next_back")
    /\ Len(bwd) >= 3 /\ Range(bwd) = set

\* the values the iterator has not yielded yet
NotYetYielded == Cardinality(Members(set)) - Len(fwd) - Len(bwd)

\* size_hint() as the crate at hand computes it
SizeHint(it) ==
    IF Derive THEN EnumSetIter_size_hint(it)
    ELSE EnumSetIter_size_hint_macro(it)

\* C7: at every point of a forward iteration, for every enumeration,
\* size_hint() returns (n, Some(n)) with n the number of values not yet
\* yielded.  (Stated for both crates.)
C7_SizeHintExact ==
    (iter.live /\ bwd = <<>>) =>
        LET h == SizeHint(iter)
        IN  /\ ~h.panicked
            /\ h.val = <<NotYetYielded, Some(NotYetYielded)>>

\* C7, derive-based crate only
C7_SizeHintExact_derive == Derive => C7_SizeHintExact

----------------------------------------------------------------------------
(* EnumSetSubsetIter *)

EnumSetSubsetIter_new(s) ==
    [live |-> TRUE, set |-> s, next |-> empty, done |-> FALSE]

\* subset step that starts over after it has reported the end
EnumSetSubsetIter_next_restarts(self) ==
    IF self.done
    THEN [self |-> [self EXCEPT !.next = empty, !.done = FALSE], ret |-> None]
    ELSE LET current == self.next
             set_ == self.set
             next_ == BitAnd(wrapping_sub(current, set_), set_)
         IN  [self |-> [self EXCEPT !.next = next_,
                                    !.done = IF is_empty(next_) THEN TRUE
                                             ELSE self.done],
              ret |-> Some(current)]

\* subset step that subtracts without the final mask
EnumSetSubsetIter_next_unmasked(self) ==
    IF self.done THEN [self |-> self, ret |-> None]
    ELSE LET current == self.next
             set_ == self.set
             next_ == wrapping_sub(current, set_)
         IN  [self |-> [self EXCEPT !.next = next_,
                                    !.done = IF is_empty(next_) THEN TRUE
                                             ELSE self.done],
              ret |-> Some(current)]

\* impl Iterator for EnumSetSubsetIter: the carry-rippler step
EnumSetSubsetIter_next(self) ==
    IF self.done THEN [self |-> self, ret |-> None]
    ELSE LET current == self.next
             set_ == self.set
             next_ == BitAnd(wrapping_sub(current, set_), set_)
         IN  [self |-> [self EXCEPT !.next = next_,
                                    !.done = IF is_empty(next_) THEN TRUE
                                             ELSE self.done],
              ret |-> Some(current)]

\* set.subsets()
Subsets ==
    /\ Derive
    /\ sub' = EnumSetSubsetIter_new(set)
    /\ sub_out' = <<>>
    /\ ret' = [op |-> "subsets"]
    /\ UNCHANGED <<set, other, iter, fwd, bwd>> /\ Fixed

SubsetNext ==
    /\ Derive /\ sub.live
    /\ LET r == EnumSetSubsetIter_next(sub)
       IN  /\ sub' = r.self
           /\ ret' = [op |-> "subsets_next", result |-> r.ret]
           /\ sub_out' = IF IsSome(r.ret) THEN Append(sub_out, Unwrap(r.ret))
                         ELSE sub_out
    /\ UNCHANGED <<set, other, iter, fwd, bwd>> /\ Fixed

\* the enumerations whose sets have their subsets listed
SubsetEnums == {Enum, SparseEnum, MyEnum}

InitSubsets ==
    /\ T \in SubsetEnums
    /\ overflow_checks \in BOOLEAN
    /\ set \in ReachableSets
    /\ other = new
    /\ ret = NoCall
    /\ arg = NoArg
    /\ iter = NoIter /\ fwd = <<>> /\ bwd = <<>>
    /\ sub = NoIter /\ sub_out = <<>>

NextSubsets ==
    \/ Subsets
    \/ SubsetNext

SpecSubsets == InitSubsets /\ [][NextSubsets]_vars

\* C4: for a set s with k elements, subsets() yields subsets of s in
\* strictly ascending numeric order of their backing values (hence pairwise
\* distinct), the first being the empty set; the iterator is done exactly
\* when 2^k sets have been yielded, the last being s itself, and only then
\* does next() return None.
C4_SubsetEnumeration ==
    sub.live =>
        LET k == len(set)
            n == Len(sub_out)
        IN  /\ \A i \in 1 .. n : is_subset(sub_out[i], set)
            /\ \A i \in 1 .. (n - 1) : Less(sub_out[i], sub_out[i + 1])
            /\ n >= 1 => sub_out[1] = empty
            /\ n <= Pow2(k)
            /\ sub.done <=> (n = Pow2(k))
            /\ sub.done => sub_out[n] = set
            /\ Exhausted("subsets_next") => sub.done

\* next() has returned None after yielding the 2^3 or more subsets of a set
C4_Witness ==
    /\ sub.live /\ Exhausted("subsets_next")
    /\ len(set) >= 3 /\ Len(sub_out) = Pow2(len(set))

\* the single subset of the empty set has been yielded
C4_WitnessEmpty ==
    /\ sub.live /\ set = empty /\ sub_out = <<empty>> /\ sub.done

----------------------------------------------------------------------------
(* Numeric conversions of the derive-based crate.  The integer type u{n}   *)
(* of a conversion is given by its width n; usize is u32 or u64.            *)

as_repr(self) == self
from_repr_unchecked(bits) == bits

\* try_from_repr with the operands of and_not swapped
try_from_repr_swapped(bits) ==
    LET mask == all
    IN  IF is_empty(and_not(mask, bits)) THEN Some(bits) ELSE None

try_from_repr(bits) ==
    LET mask == all
    IN  IF is_empty(and_not(bits, mask)) THEN Some(bits) ELSE None

from_repr(bits) == expect(try_from_repr(bits))

from_repr_truncated(bits) ==
    LET mask == as_repr(all)
    IN  BitAnd(bits, mask)

\* conversion_impls!: $try_to, $to, $to_truncated
try_as_uN(self, n) == repr_to_uN_opt(self, n)
as_uN(self, n) == expect(try_as_uN(self, n))
as_uN_truncated(self, n) == repr_to_uN(self, n)

\* $try_from that only checks that the value fits the backing integer
try_from_uN_unmasked(bits) == repr_from_uN_opt(bits)

\* conversion_impls!: $try_from
try_from_uN(bits) ==
    LET bits_ == repr_from_uN_opt(bits)
        mask == all
    IN  IF IsSome(bits_)
        THEN IF is_empty(and_not(Unwrap(bits_), mask))
             THEN Some(Unwrap(bits_)) ELSE None
        ELSE None

\* conversion_impls!: $from_unchecked
from_uN_unchecked(bits) == repr_from_uN(bits)

\* $from that does not check
from_uN_like_unchecked(bits) == Return(from_uN_unchecked(bits))

\* conversion_impls!: $from
from_uN(bits) == expect(try_from_uN(bits))

\* $from_truncated that only casts
from_uN_truncated_cast_only(bits, n) == repr_from_uN(bits)

\* conversion_impls!: $from_truncated
from_uN_truncated(bits, n) ==
    LET mask == as_uN_truncated(all, n)
    IN  repr_from_uN(BitAnd(bits, mask))

\* the widths of u8, u16, u32, u64, u128
ConvWidths == {8, 16, 32, 64, 128}

\* EnumSet::try_from_u8(bits) .. try_from_u128(bits), try_from_usize(bits)
TryFrom ==
    /\ Derive
    /\ ret' = [op |-> "try_from_uN", result |-> try_from_uN(arg.bits)]
    /\ UNCHANGED <<set, other>> /\ IterUnchanged /\ Fixed

\* EnumSet::from_u8(bits) ..
From ==
    /\ Derive
    /\ ret' = [op |-> "from_uN", result |-> from_uN(arg.bits)]
    /\ UNCHANGED <<set, other>> /\ IterUnchanged /\ Fixed

\* set = EnumSet::from_u8_truncated(bits) ..
FromTruncated ==
    /\ Derive
    /\ LET r == from_uN_truncated(arg.bits, arg.n)
       IN  /\ set' = r
           /\ ret' = [op |-> "from_uN_truncated", result |-> r]
    /\ UNCHANGED other /\ IterUnchanged /\ Fixed

\* the *_repr functions take a T::Repr
TryFromRepr ==
    /\ Derive /\ arg.n = T.WIDTH
    /\ ret' = [op |-> "try_from_repr", result |-> try_from_repr(arg.bits)]
    /\ UNCHANGED <<set, other>> /\ IterUnchanged /\ Fixed

FromRepr ==
    /\ Derive /\ arg.n = T.WIDTH
    /\ ret' = [op |-> "from_repr", result |-> from_repr(arg.bits)]
    /\ UNCHANGED <<set, other>> /\ IterUnchanged /\ Fixed

FromReprTruncated ==
    /\ Derive /\ arg.n = T.WIDTH
    /\ LET r == from_repr_truncated(arg.bits)
       IN  /\ set' = r
           /\ ret' = [op |-> "from_repr_truncated", result |-> r]
    /\ UNCHANGED other /\ IterUnchanged /\ Fixed

\* set.try_as_u8() .., set.as_u8() .., set.as_u8_truncated() ..
TryAs(n) ==
    /\ Derive
    /\ ret' = [op |-> "try_as_uN", n |-> n, result |-> try_as_uN(set, n)]
    /\ UNCHANGED <<set, other>> /\ IterUnchanged /\ Fixed

As(n) ==
    /\ Derive
    /\ ret' = [op |-> "as_uN", n |-> n, result |-> as_uN(set, n)]
    /\ UNCHANGED <<set, other>> /\ IterUnchanged /\ Fixed

AsTruncated(n) ==
    /\ Derive
    /\ ret' = [op |-> "as_uN_truncated", n |-> n,
               result |-> as_uN_truncated(set, n)]
    /\ UNCHANGED <<set, other>> /\ IterUnchanged /\ Fixed

\* set.as_repr()
AsRepr ==
    /\ Derive
    /\ ret' = [op |-> "as_repr", result |-> as_repr(set)]
    /\ UNCHANGED <<set, other>> /\ IterUnchanged /\ Fixed

\* the enumerations whose sets are converted
ConvEnums == {Enum3, MyEnum, SparseEnum}

\* bit positions that belong to no variant: the lowest and the highest one
\* inside the backing integer, and the first and the last one beyond it
StrayBits ==
    LET inside == Bits(T.WIDTH) \ T.ALL_BITS
    IN  (IF inside = {} THEN {} ELSE {Min(inside), Max(inside)})
        \cup ({T.WIDTH, 127} \ Bits(T.WIDTH))

\* how many stray bits an input has at most
MaxStray == 1

\* the u{n} values handed to the imports: any variants' bits, and up to
\* MaxStray stray bits
Inputs(n) ==
    {v \cup x : v \in SUBSET (T.ALL_BITS \cap Bits(n)),
                x \in {y \in SUBSET (StrayBits \cap Bits(n)) :
                           Cardinality(y) <= MaxStray}}

InitConv ==
    /\ T \in ConvEnums
    /\ overflow_checks = FALSE
    /\ \E n \in ConvWidths : \E bits \in Inputs(n) :
           arg = [n |-> n, bits |-> bits]
    /\ set = new /\ other = new
    /\ ret = NoCall
    /\ iter = NoIter /\ fwd = <<>> /\ bwd = <<>>
    /\ sub = NoIter /\ sub_out = <<>>

NextConv ==
    \/ TryFrom
    \/ From
    \/ FromTruncated
    \/ TryFromRepr
    \/ FromRepr
    \/ FromReprTruncated
    \/ \E n \in ConvWidths : TryAs(n)
    \/ \E n \in ConvWidths : As(n)
    \/ \E n \in ConvWidths : AsTruncated(n)
    \/ AsRepr

SpecConv == InitConv /\ [][NextConv]_vars

----------------------------------------------------------------------------
(* Properties of the conversions *)

\* the input has a bit that belongs to no variant (a bit that does not fit
\* the backing integer is such a bit)
HasInvalidBit(bits) == \E p \in bits : p \notin T.ALL_BITS

\* C8: the checked imports return None exactly when the input has a bit
\* outside the Valid-Bits Mask, and otherwise Some(set) whose backing value
\* equals the input.
C8_CheckedImport ==
    ret.op \in {"try_from_repr", "try_from_uN"} =>
        /\ (ret.result = None) <=> HasInvalidBit(arg.bits)
        /\ IsSome(ret.result) => Unwrap(ret.result) = arg.bits

\* a checked import refused a bit that fits the backing integer but belongs
\* to no variant
C8_Witness ==
    /\ ret.op = "try_from_uN" /\ ret.result = None
    /\ arg.bits \subseteq Bits(T.WIDTH)
    /\ arg.bits \cap T.ALL_BITS # {}

\* C9: the truncating imports return the set whose backing value is
\* bits & ALL_BITS: it satisfies the Valid-Bits invariant and equals the
\* checked import's result whenever that one succeeds.
C9_TruncatingImport ==
    ret.op \in {"from_repr_truncated", "from_uN_truncated"} =>
        /\ ret.result = arg.bits \cap T.ALL_BITS
        /\ Valid(ret.result)
        /\ LET checked == IF ret.op = "from_repr_truncated"
                           THEN try_from_repr(arg.bits)
                           ELSE try_from_uN(arg.bits)
           IN  IsSome(checked) => ret.result = Unwrap(checked)

\* a truncating import dropped a stray bit and kept a variant's bit
C9_Witness ==
    /\ ret.op = "from_uN_truncated"
    /\ HasInvalidBit(arg.bits)
    /\ ret.result # {} /\ ret.result # arg.bits

\* the checked sibling's result for the call recorded in ret
Sibling ==
    CASE ret.op = "from_repr" -> try_from_repr(arg.bits)
      [] ret.op = "from_uN"   -> try_from_uN(arg.bits)
      [] ret.op = "as_uN"     -> try_as_uN(set, ret.n)

\* C10: a panicking conversion panics exactly when its checked sibling
\* returns None on the same input, and otherwise returns the value inside
\* the sibling's Some.
C10_PanicIffNone ==
    ret.op \in {"from_repr", "from_uN", "as_uN"} =>
        /\ ret.result.panicked <=> (Sibling = None)
        /\ ~ret.result.panicked => ret.result.val = Unwrap(Sibling)

\* from_uN panicked on an input with a stray bit
C10_Witness ==
    /\ ret.op = "from_uN" /\ ret.result.panicked
    /\ HasInvalidBit(arg.bits)

\* C11: export followed by checked import is the identity: as_repr returns
\* the backing value unchanged and try_from_repr(s.as_repr()) == Some(s).
C11_ReprRoundTrip ==
    Derive =>
        /\ as_repr(set) = set
        /\ try_from_repr(as_repr(set)) = Some(set)
        /\ ret.op = "as_repr" =>
               /\ ret.result = set
               /\ try_from_repr(ret.result) = Some(set)

\* as_repr has exported a set that holds some but not all variants
C11_Witness ==
    /\ ret.op = "as_repr" /\ ret.result = set
    /\ set # {} /\ set # T.ALL_BITS

----------------------------------------------------------------------------
(* Properties of the set algebra *)

\* C12: the complement of a set contains exactly the valid values that are
\* not in the set: it is (NOT s) AND ALL_BITS, has no bit outside the mask,
\* is disjoint from s, and its union with s is all().
C12_Complement ==
    Derive =>
        LET c == complement(set)
        IN  /\ c = BitAnd(BitNot(set), T.ALL_BITS)
            /\ not(set) = c
            /\ Valid(c)
            /\ \A v \in Variants : contains(c, v) <=> ~contains(set, v)
            /\ is_disjoint(set, c)
            /\ union(set, c) = all

\* other is the complement of a singleton
C12_Witness ==
    /\ Derive /\ other = not(set)
    /\ len(set) = 1 /\ len(other) = T.VARIANT_COUNT - 1

\* C13: complementing twice gives the set back.
C13_DoubleComplement ==
    Derive => not(not(set)) = set /\ not(not(other)) = other

\* each set is the complement of the other
C13_Witness ==
    /\ Derive /\ set = not(other) /\ other = not(set)
    /\ set # new /\ other # new

\* C14: union, intersection, symmetrical_difference and difference (and the
\* operators |, &, ^, -) contain exactly the values in either, in both, in
\* exactly one, and in the first but not the second operand.
C14_BinaryOps ==
    \A v \in Variants :
        LET a == Contains(set, v)
            b == Contains(other, v)
        IN  /\ Derive =>
                /\ contains(union(set, other), v) <=> a \/ b
                /\ contains(intersection(set, other), v) <=> a /\ b
                /\ contains(symmetrical_difference(set, other), v) <=> a # b
                /\ contains(difference(set, other), v) <=> a /\ ~b
                /\ contains(bitor(set, other), v) <=> a \/ b
                /\ contains(bitand(set, other), v) <=> a /\ b
                /\ contains(bitxor(set, other), v) <=> a # b
                /\ contains(sub_(set, other), v) <=> a /\ ~b
            /\ Macro =>
                /\ contains_macro(union_macro(set, other), v) <=> a \/ b
                /\ contains_macro(intersection_macro(set, other), v)
                       <=> a /\ b
                /\ contains_macro(symmetrical_difference_macro(set, other), v)
                       <=> a # b
                /\ contains_macro(difference_macro(set, other), v)
                       <=> a /\ ~b
                /\ contains_macro(bitor_macro(set, other), v) <=> a \/ b
                /\ contains_macro(bitand_macro(set, other), v) <=> a /\ b
                /\ contains_macro(bitxor_macro(set, other), v) <=> a # b
                /\ contains_macro(sub_macro(set, other), v) <=> a /\ ~b

\* two operands on which the four operations give four different sets
C14_Witness ==
    /\ Derive
    /\ Cardinality({union(set, other), intersection(set, other),
                    symmetrical_difference(set, other),
                    difference(set, other)}) = 4

\* the same for the macro-based crate
C14_Witness_macro ==
    /\ Macro
    /\ Cardinality({union_macro(set, other), intersection_macro(set, other),
                    symmetrical_difference_macro(set, other),
                    difference_macro(set, other)}) = 4

\* C15: a - b equals a & !b, with ! the mask-limited complement.
C15_DifferenceByComplement ==
    Derive =>
        /\ sub_(set, other) = bitand(set, not(other))
        /\ difference(set, other) = intersection(set, complement(other))

\* the difference removes something, leaves something, and is not all of
\* the complement
C15_Witness ==
    /\ Derive
    /\ sub_(set, other) # set /\ sub_(set, other) # new
    /\ sub_(set, other) # not(other)

\* C16: a ^ b equals (a - b) | (b - a).
C16_SymmetricDifference ==
    Derive =>
        /\ bitxor(set, other) = bitor(sub_(set, other), sub_(other, set))
        /\ symmetrical_difference(set, other) =
               union(difference(set, other), difference(other, set))

\* both differences and the intersection are non-empty
C16_Witness ==
    /\ Derive
    /\ sub_(set, other) # new /\ sub_(other, set) # new
    /\ bitand(set, other) # new

\* C17: intersection distributes over union: a & (b | c) == (a & b) | (a & c)
\* for the two sets of the program and every third set c.
C17_Distributive ==
    Derive =>
        \A c \in SUBSET T.ALL_BITS :
            bitand(set, bitor(other, c)) =
                bitor(bitand(set, other), bitand(set, c))

\* b and c pick different parts of a, and together not all of it
C17_Witness ==
    /\ Derive
    /\ \E c \in SUBSET T.ALL_BITS :
           /\ bitand(set, other) # new /\ bitand(set, c) # new
           /\ bitand(set, other) # bitand(set, c)
           /\ bitand(set, bitor(other, c)) # set

\* C18: only(v) contains v, contains no other value, and has len() == 1.
C18_Only ==
    Derive =>
        \A v \in Variants :
            /\ contains(only(v), v)
            /\ \A u \in Variants \ {v} : ~contains(only(v), u)
            /\ len(only(v)) = 1
            /\ from(v) = only(v)

\* other was made from a bare value that is not the first variant
C18_Witness ==
    /\ Derive
    /\ \E v \in Variants : other = only(v) /\ v # Min(Variants)
    /\ set # other

\* C19: a set equals a bare value v exactly when it is the singleton {v}:
\* it contains v and has length 1.  The empty set equals no value.
C19_EqValue ==
    Derive =>
        /\ \A v \in Variants :
               eq_value(set, v) <=> (contains(set, v) /\ len(set) = 1)
        /\ set = new => \A v \in Variants : ~eq_value(set, v)

\* a comparison with a bare value has come out true
C19_Witness ==
    /\ Derive /\ ret.op = "eq_value"
    /\ ret.result /\ eq_value(set, ret.value)

\* a comparison with a member of a larger set has come out false
C19_Witness_member ==
    /\ Derive /\ ret.op = "eq_value"
    /\ ~ret.result /\ contains(set, ret.value) /\ ~eq_value(set, ret.value)

\* C20: is_disjoint is true exactly when the sets share no value,
\* is_superset(a, b) when every value of b is in a, is_subset(a, b) when
\* every value of a is in b, and is_subset(a, b) == is_superset(b, a).
C20_SetPredicates ==
    LET shared == \E v \in Variants : Contains(set, v) /\ Contains(other, v)
        covers == \A v \in Variants : Contains(other, v) => Contains(set, v)
        within == \A v \in Variants : Contains(set, v) => Contains(other, v)
    IN  /\ Derive =>
            /\ is_disjoint(set, other) <=> ~shared
            /\ is_superset(set, other) <=> covers
            /\ is_subset(set, other) <=> within
            /\ is_subset(set, other) = is_superset(other, set)
        /\ Macro =>
            /\ is_disjoint_macro(set, other) <=> ~shared
            /\ is_superset_macro(set, other) <=> covers
            /\ is_subset_macro(set, other) <=> within
            /\ is_subset_macro(set, other) = is_superset_macro(other, set)

\* is_subset has answered true for a proper, non-empty subset
C20_Witness ==
    /\ Derive /\ ret.op = "is_subset" /\ ret.result
    /\ is_subset(set, other) /\ ~is_superset(set, other)
    /\ set # new

\* is_disjoint has answered true for two non-empty sets, macro-based crate
C20_Witness_macro ==
    /\ Macro /\ ret.op = "is_disjoint" /\ ret.result
    /\ is_disjoint_macro(set, other)
    /\ set # new_macro /\ other # new_macro

----------------------------------------------------------------------------
(* Properties of the bulk mutations *)

\* C21: insert_all(other) leaves the union of the previous set and other,
\* remove_all(other) the previous set minus other, clear() the empty set
\* (is_empty() true, len() == 0); none of them changes other.  (Both crates.)
C21_BulkMutation ==
    [][/\ (InsertAll \/ InsertAll_macro) =>
              /\ \A v \in Variants :
                     Contains(set', v) <=> Contains(set, v) \/ Contains(other, v)
              /\ set' = (IF Derive THEN union(set, other)
                                   ELSE union_macro(set, other))
              /\ other' = other
       /\ (RemoveAll \/ RemoveAll_macro) =>
              /\ \A v \in Variants :
                     Contains(set', v) <=> Contains(set, v) /\ ~Contains(other, v)
              /\ set' = (IF Derive THEN difference(set, other)
                                   ELSE difference_macro(set, other))
              /\ other' = other
       /\ Clear =>
              /\ is_empty(set') /\ len(set') = 0
              /\ \A v \in Variants : ~contains(set', v)
              /\ other' = other
       /\ Clear_macro =>
              /\ is_empty_macro(set') /\ len_macro(set') = 0
              /\ \A v \in Variants : ~contains_macro(set', v)
              /\ other' = other]_vars

\* a set that a bulk removal can have left: disjoint from other, both
\* non-empty, with a variant in neither
C21_Witness ==
    /\ Derive /\ set # new /\ other # new
    /\ is_disjoint(set, other)
    /\ union(set, other) # all

----------------------------------------------------------------------------
(* A program that holds a set and iterates it in every way at once *)

FrameEnums == {MyEnum, SparseEnum, Enum_macro}

InitFrame ==
    /\ T \in FrameEnums
    /\ overflow_checks \in BOOLEAN
    /\ set \in ReachableSets
    /\ other = set
    /\ ret = NoCall
    /\ arg = NoArg
    /\ iter = NoIter /\ fwd = <<>> /\ bwd = <<>>
    /\ sub = NoIter /\ sub_out = <<>>

NextFrame ==
    \/ Iter
    \/ IterNext
    \/ IterNextBack
    \/ Subsets
    \/ SubsetNext
    \/ Iter_macro
    \/ IterNext_macro

SpecFrame == InitFrame /\ [][NextFrame]_vars

\* C22: creating an iterator (iter(), into_iter(), subsets()) and advancing
\* it never changes the source set: its contents and len() are the same
\* before and after every such step.
C22_IterationFrame ==
    [][(Iter \/ IterNext \/ IterNextBack \/ Subsets \/ SubsetNext
            \/ Iter_macro \/ IterNext_macro) =>
           /\ set' = set
           /\ \A v \in Variants : Contains(set', v) = Contains(set, v)
           /\ Cardinality(set') = Cardinality(set)]_vars

\* both iterators of a three-element set have been advanced, and the set
\* still is what it was when the program started
C22_Witness ==
    /\ Derive /\ iter.live /\ sub.live
    /\ len(set) >= 3 /\ set = other
    /\ Len(fwd) >= 1 /\ Len(bwd) >= 1 /\ Len(sub_out) >= 2
    /\ iter.set # set

----------------------------------------------------------------------------
(* Properties of Debug formatting *)

\* the i-th smallest element of a set of bit indices
Nth(s, i) == CHOOSE v \in s : Cardinality({u \in s : u < v}) = i - 1

\* C23: Debug formatting writes "EnumSet(", then the contained values in
\* ascending bit-index order with " | " between consecutive values (none
\* before the first or after the last), then ")"; the empty set gives
\* "EnumSet()".  (Both crates.)
C23_DebugFormat ==
    LET out == IF Derive THEN fmt(set) ELSE fmt_macro(set)
        k == Cardinality(set)
    IN  /\ Len(out) = (IF k = 0 THEN 2 ELSE 2 * k + 1)
        /\ out[1] = write_str("EnumSet(")
        /\ out[Len(out)] = write_str(")")
        /\ \A i \in 1 .. k : out[2 * i] = fmt_value(Nth(set, i))
        /\ \A i \in 1 .. (k - 1) : out[2 * i + 1] = write_str(" | ")
        /\ ret.op = "fmt" => ret.result = out

\* a set of three or more values has been formatted
C23_Witness ==
    /\ Derive /\ ret.op = "fmt" /\ Cardinality(set) >= 3
    /\ ret.result[3] = write_str(" | ")

\* the empty set has been formatted, macro-based crate
C23_Witness_empty ==
    /\ Macro /\ ret.op = "fmt" /\ set = new_macro
    /\ ret.result = <<write_str("EnumSet("), write_str(")")>>

----------------------------------------------------------------------------
(* The size queries of an enumeration, for a family of enumerations *)

\* the highest discriminant of the generated enumerations
MaxDiscriminant == 7

\* backing integers an enumeration can ask for with #[enumset(repr = ...)]
ReprWidths == {8, 16, 32, 64, 128}

\* every enumeration with discriminants up to MaxDiscriminant, in every
\* backing integer that holds it, and the sparse enumeration of the docs
WidthEnums ==
    UNION {{MkEnum("derive", w, b) :
               b \in {m \in SUBSET (0 .. MaxDiscriminant) :
                          m \subseteq 0 .. (w - 1)}} :
           w \in ReprWidths}
    \cup {SparseEnum}

\* EnumSet::<T>::bit_width()
BitWidth ==
    /\ ret' = [op |-> "bit_width", result |-> bit_width]
    /\ UNCHANGED <<set, other>> /\ IterUnchanged /\ Fixed

\* EnumSet::<T>::variant_count()
VariantCount ==
    /\ ret' = [op |-> "variant_count", result |-> variant_count]
    /\ UNCHANGED <<set, other>> /\ IterUnchanged /\ Fixed

InitWidth ==
    /\ T \in WidthEnums
    /\ overflow_checks = TRUE
    /\ set = new
    /\ other = new
    /\ ret = NoCall
    /\ arg = NoArg
    /\ iter = NoIter /\ fwd = <<>> /\ bwd = <<>>
    /\ sub = NoIter /\ sub_out = <<>>

NextWidth ==
    \/ BitWidth
    \/ VariantCount

SpecWidth == InitWidth /\ [][NextWidth]_vars

\* C24: bit_width() is the position of the highest bit of ALL_BITS plus one
\* (0 without variants), variant_count() is the number of bits of ALL_BITS;
\* so variant_count() <= bit_width(), with equality exactly when the valid
\* positions are 0..n-1.  For {10, 20, 30, 127} they are 128 and 4.
C24_SizeQueries ==
    LET n == Cardinality(T.ALL_BITS)
    IN  /\ bit_width = (IF T.ALL_BITS = {} THEN 0 ELSE Max(T.ALL_BITS) + 1)
        /\ variant_count = n
        /\ variant_count <= bit_width
        /\ (variant_count = bit_width) <=> (T.ALL_BITS = 0 .. (n - 1))
        /\ T.ALL_BITS = {10, 20, 30, 127} =>
               bit_width = 128 /\ variant_count = 4
        /\ ret.op = "bit_width" => ret.result = bit_width
        /\ ret.op = "variant_count" => ret.result = variant_count

\* bit_width has been asked of an enumeration with a gap below its highest
\* discriminant
C24_Witness ==
    /\ ret.op = "bit_width" /\ T.ALL_BITS # {}
    /\ ret.result > Cardinality(T.ALL_BITS)
    /\ ret.result < T.WIDTH

\* variant_count has been asked of the sparse enumeration
C24_Witness_sparse ==
    /\ ret.op = "variant_count" /\ T = SparseEnum /\ ret.result = 4

\* bit_width has been asked of an enumeration without variants
C24_Witness_empty ==
    /\ ret.op = "bit_width" /\ T.ALL_BITS = {} /\ ret.result = 0

----------------------------------------------------------------------------
(* Properties of the unsafe and guarded steps inside the iterators *)

\* C25: the iterators hand enum_from_u32 only indices whose bit is in
\* ALL_BITS, and from_u8 (macro-based crate) only indices below
\* VARIANT_COUNT: the working copy never has another bit, the index the next
\* call of either end would pass is valid, and so was every index passed.
C25_UnsafeReconstruction ==
    /\ Derive /\ iter.live =>
           /\ Valid(iter.set)
           /\ ~is_empty(iter.set) =>
                  /\ trailing_zeros(iter.set) \in T.ALL_BITS
                  /\ T.WIDTH - 1 - leading_zeros(iter.set) \in T.ALL_BITS
           /\ \A i \in 1 .. Len(fwd) : fwd[i] \in T.ALL_BITS
           /\ \A i \in 1 .. Len(bwd) : bwd[i] \in T.ALL_BITS
    /\ Macro /\ iter.live =>
           /\ iter.idx <= T.VARIANT_COUNT
           /\ \A i \in 1 .. Len(fwd) : fwd[i] \in 0 .. (T.VARIANT_COUNT - 1)
           /\ IsSome(EnumSetIter_next_macro(iter).ret) =>
                  EnumSetIter_next_macro(iter).self.idx - 1 < T.VARIANT_COUNT

\* both ends of an iterator over the sparse enumeration have reconstructed a
\* value
C25_Witness ==
    /\ Derive /\ iter.live /\ T = SparseEnum
    /\ Len(fwd) >= 1 /\ Len(bwd) >= 1
    /\ fwd[1] = 10 /\ bwd[1] = 127

\* the macro-based iterator has reconstructed the last variant
C25_Witness_macro ==
    /\ Macro /\ iter.live /\ Len(fwd) >= 1
    /\ fwd[Len(fwd)] = T.VARIANT_COUNT - 1

\* C26: next and next_back compute a bit index only from a non-empty working
\* copy (an empty one gives None), so trailing_zeros and
\* WIDTH - 1 - leading_zeros never underflow, lie in 0..WIDTH-1 and name a
\* bit that is set in the working copy.
C26_GuardedBitIndex ==
    Derive /\ iter.live =>
        LET nx == EnumSetIter_next(iter)
            nb == EnumSetIter_next_back(iter)
        IN  /\ IsSome(nx.ret) <=> ~is_empty(iter.set)
            /\ IsSome(nb.ret) <=> ~is_empty(iter.set)
            /\ ~is_empty(iter.set) =>
                   /\ trailing_zeros(iter.set) < T.WIDTH
                   /\ leading_zeros(iter.set) <= T.WIDTH - 1
                   /\ Unwrap(nx.ret) = trailing_zeros(iter.set)
                   /\ Unwrap(nb.ret) = T.WIDTH - 1 - leading_zeros(iter.set)
                   /\ Unwrap(nx.ret) \in Bits(T.WIDTH)
                   /\ Unwrap(nb.ret) \in Bits(T.WIDTH)
                   /\ has_bit(iter.set, Unwrap(nx.ret))
                   /\ has_bit(iter.set, Unwrap(nb.ret))
                   /\ ~has_bit(nx.self.set, Unwrap(nx.ret))
                   /\ ~has_bit(nb.self.set, Unwrap(nb.ret))

\* bit 0 and bit WIDTH - 1 have been taken off a working copy that still
\* holds something
C26_Witness ==
    /\ Derive /\ iter.live /\ T = ByteEnum
    /\ Len(fwd) >= 1 /\ fwd[1] = 0
    /\ Len(bwd) >= 1 /\ bwd[1] = T.WIDTH - 1
    /\ ~is_empty(iter.set)

\* next has met an empty working copy
C26_Witness_empty ==
    /\ Derive /\ iter.live /\ is_empty(iter.set)
    /\ Exhausted("next") /\ Len(fwd) + Len(bwd) >= 2

----------------------------------------------------------------------------
(* Properties of the completion of the iterators *)

\* C27: in the subset iterator the call of next() that sets done, because
\* the candidate (current - set) & set is zero, is exactly the call that
\* yields the full target set; no earlier call computes a zero candidate.
C27_SubsetCompletion ==
    [][SubsetNext /\ ~sub.done =>
           LET current == sub.next
               candidate == BitAnd(wrapping_sub(current, sub.set), sub.set)
           IN  /\ ret'.result = Some(current)
               /\ sub'.next = candidate
               /\ sub'.done <=> is_empty(candidate)
               /\ is_empty(candidate) <=> (current = sub.set)
               /\ sub'.done <=> (Unwrap(ret'.result) = set)]_vars

\* the call that yielded the full set of three or more values has set done,
\* after calls that did not
C27_Witness ==
    /\ sub.live /\ sub.done /\ len(set) >= 3
    /\ ret.op = "subsets_next" /\ ret.result = Some(set)
    /\ Len(sub_out) >= 8 /\ sub_out[Len(sub_out)] = set

\* C28: however next() and next_back() are interleaved on one EnumSetIter
\* over s, every member of s is yielded exactly once by one of the two ends
\* and nothing else is; values of next() ascend, values of next_back()
\* descend, every value of next() is below every value of next_back(); the
\* ends return None exactly when popcount(s) values have been yielded.
C28_DoubleEnded ==
    Derive /\ iter.live =>
        LET yielded == Len(fwd) + Len(bwd)
        IN  /\ Range(fwd) \cup Range(bwd) \cup Members(iter.set) = Members(set)
            /\ Cardinality(Range(fwd) \cup Range(bwd)) = yielded
            /\ Range(fwd) \cap Members(iter.set) = {}
            /\ Range(bwd) \cap Members(iter.set) = {}
            /\ Ascending(fwd) /\ Descending(bwd)
            /\ \A i \in 1 .. Len(fwd) : \A j \in 1 .. Len(bwd) : fwd[i] < bwd[j]
            /\ yielded <= len(set)
            /\ IsSome(EnumSetIter_next(iter).ret) <=> (yielded < len(set))
            /\ IsSome(EnumSetIter_next_back(iter).ret) <=> (yielded < len(set))
            /\ (Exhausted("next") \/ Exhausted("next_back")) =>
                   /\ yielded = len(set)
                   /\ Range(fwd) \cup Range(bwd) = Members(set)

\* an iterator over five or more values has run out with values taken from
\* both ends
C28_Witness ==
    /\ Derive /\ iter.live /\ len(set) >= 5
    /\ Len(fwd) >= 2 /\ Len(bwd) >= 2
    /\ Exhausted("next_back")
    /\ ~IsSome(EnumSetIter_next(iter).ret)

\* C29: exhaustion is permanent.  A call of next() or next_back() of
\* EnumSetIter (either crate), or of next() of EnumSetSubsetIter, that
\* returns None leaves the iterator in a state from which every call returns
\* None again and changes nothing.
C29_ExhaustionPermanent ==
    [][/\ (IterNext \/ IterNextBack) /\ ret'.result = None =>
              /\ EnumSetIter_next(iter') = [self |-> iter', ret |-> None]
              /\ EnumSetIter_next_back(iter') = [self |-> iter', ret |-> None]
       /\ IterNext_macro /\ ret'.result = None =>
              /\ EnumSetIter_next_macro(iter') = [self |-> iter', ret |-> None]
       /\ SubsetNext /\ ret'.result = None =>
              /\ EnumSetSubsetIter_next(sub') = [self |-> sub', ret |-> None]
      ]_vars

\* the subset iterator of a non-empty set has returned None and is done
C29_Witness ==
    /\ Derive /\ sub.live /\ sub.done /\ set # new
    /\ Exhausted("subsets_next")
    /\ EnumSetSubsetIter_next(sub).ret = None

\* next_back has returned None after next took every value
C29_Witness_iter ==
    /\ Derive /\ iter.live /\ Exhausted("next_back")
    /\ Len(fwd) = len(set) /\ len(set) >= 2

\* next of the macro-based crate has returned None
C29_Witness_macro ==
    /\ Macro /\ iter.live /\ Exhausted("next")
    /\ iter.idx = T.VARIANT_COUNT /\ Len(fwd) >= 2

----------------------------------------------------------------------------
(* enum_set_type!: the macro-based crate defines an enumeration from the    *)
(* list of its variants.  A build error is None.                            *)

\* the rules of enum_set_type_internal_count_variants!, in the order the
\* compiler tries them: a rule matches a list of more than `idents` variants
count_variants_rules(i128) ==
    IF i128
    THEN <<[idents |-> 128, repr |-> None],
           [idents |-> 64, repr |-> Some(128)],
           [idents |-> 32, repr |-> Some(64)],
           [idents |-> 16, repr |-> Some(32)],
           [idents |-> 8, repr |-> Some(16)]>>
    ELSE <<[idents |-> 64, repr |-> None],
           [idents |-> 32, repr |-> Some(64)],
           [idents |-> 16, repr |-> Some(32)],
           [idents |-> 8, repr |-> Some(16)]>>

\* the rules with $($rest:ident)* in place of $($rest:ident)+
enum_set_type_internal_count_variants_rest_star(n, i128) ==
    LET rules == count_variants_rules(i128)
        matching == {i \in DOMAIN rules : n >= rules[i].idents}
    IN  IF matching = {} THEN Some(8) ELSE rules[Min(matching)].repr

\* the backing integer of an enumeration with n variants: the first rule
\* that matches, or the last rule, which matches any list
enum_set_type_internal_count_variants(n, i128) ==
    LET rules == count_variants_rules(i128)
        matching == {i \in DOMAIN rules : n > rules[i].idents}
    IN  IF matching = {} THEN Some(8) ELSE rules[Min(matching)].repr

\* enum_set_type_internal!(@count ...): 0u8 + 1u8 + ... + 1u8
enum_set_type_internal_count(n) == n % 256

\* enum_set_type_internal!(@body ...): #[repr(u8)] enum with the variants in
\* the order given, and its impl EnumSetType
enum_set_type_internal_body(repr, n) ==
    [crate |-> "macro", WIDTH |-> repr, ALL_BITS |-> 0 .. (n - 1),
     VARIANT_COUNT |-> enum_set_type_internal_count(n)]

enum_set_type(n, i128) ==
    LET repr == enum_set_type_internal_count_variants(n, i128)
    IN  IF IsSome(repr) THEN Some(enum_set_type_internal_body(Unwrap(repr), n))
        ELSE None

\* the longest list of variants tried
MaxVariants == 130

\* enum_set_type! { enum E { ... } } with arg.n variants
DefineType ==
    /\ ret' = [op |-> "enum_set_type",
               result |-> enum_set_type(arg.n, arg.i128)]
    /\ UNCHANGED <<set, other>> /\ IterUnchanged /\ Fixed

InitType ==
    /\ arg \in [n : 1 .. MaxVariants, i128 : BOOLEAN]
    /\ T = Enum_macro
    /\ overflow_checks = TRUE
    /\ set = new_macro
    /\ other = new_macro
    /\ ret = NoCall
    /\ iter = NoIter /\ fwd = <<>> /\ bwd = <<>>
    /\ sub = NoIter /\ sub_out = <<>>

NextType ==
    \/ DefineType

SpecType == InitType /\ [][NextType]_vars

\* the smallest supported width that is at least n
SmallestWidth(n) == Min({w \in {8, 16, 32, 64, 128} : w >= n})

\* C30: enum_set_type! gives an enumeration of n variants the smallest
\* supported backing width that is at least n (u128 only with the i128
\* feature), is a build error for n > 128 (n > 64 without the feature), and
\* sets VARIANT_COUNT = n; so every variant's index is below VARIANT_COUNT
\* and below the backing width.
C30_BackingWidth ==
    ret.op = "enum_set_type" =>
        LET n == arg.n
            limit == IF arg.i128 THEN 128 ELSE 64
            r == ret.result
        IN  /\ IsSome(r) <=> (n <= limit)
            /\ IsSome(r) =>
                   LET E == Unwrap(r)
                   IN  /\ E.WIDTH = SmallestWidth(n)
                       /\ E.VARIANT_COUNT = n
                       /\ Cardinality(E.ALL_BITS) = n
                       /\ \A v \in E.ALL_BITS :
                              v < E.VARIANT_COUNT /\ v < E.WIDTH

\* an enumeration whose variants exactly fill a u16 has been defined
C30_Witness ==
    /\ ret.op = "enum_set_type" /\ arg.n = 16
    /\ IsSome(ret.result) /\ Unwrap(ret.result).WIDTH = 16

\* 65 variants have been rejected without the i128 feature
C30_Witness_rejected ==
    /\ ret.op = "enum_set_type" /\ arg.n = 65 /\ ~arg.i128
    /\ ret.result = None

\* 128 variants have been given a u128
C30_Witness_u128 ==
    /\ ret.op = "enum_set_type" /\ arg.n = 128 /\ arg.i128
    /\ IsSome(ret.result) /\ Unwrap(ret.result).WIDTH = 128

====
